---- MODULE Spec2Model ----
(***************************************************************************)
(* Model of dnslookup.py: the WHOIS client (get_whois_info), the DNS       *)
(* client (get_dns_records), the field normalizer                          *)
(* (get_primary_whois_value), the domain extractor                         *)
(* (get_registrable_domain) and the orchestrator (main).                   *)
(*                                                                         *)
(* Python strings are sequences of tokens: a token is one character of a   *)
(* data string (" ", "a", ".", ...) or one literal chunk of an f-string    *)
(* ("Not Found", "URL: ", ...).  Python values are tagged records.         *)
(***************************************************************************)
EXTENDS Naturals, Sequences, FiniteSets

VARIABLES
    pc,               \* position of main, or of the single-function harness
    domain_to_check,  \* main: the normalized command-line domain
    domain_whois,     \* main: result of get_whois_info(domain_to_check)
    registrant,       \* main: local of the same name
    registrar,        \* main: local of the same name
    nameservers,      \* main: record list returned by get_dns_records
    ns_error_msg,     \* main: error message returned by get_dns_records
    first_nameserver, \* main: local of the same name
    ns_owner_domain,  \* main: result of get_registrable_domain
    ns_domain_whois,  \* main: result of the owner-domain get_whois_info
    ns_registrar_info,\* main: local of the same name
    output,           \* main: the lines printed so far
    calls,            \* the network lookups issued so far, in order
    arg,              \* harness: the argument(s) of the function under call
    ret               \* harness: what the function returned

vars == <<pc, domain_to_check, domain_whois, registrant, registrar, nameservers,
          ns_error_msg, first_nameserver, ns_owner_domain, ns_domain_whois,
          ns_registrar_info, output, calls, arg, ret>>

main_vars == <<domain_to_check, domain_whois, registrant, registrar, nameservers,
               ns_error_msg, first_nameserver, ns_owner_domain, ns_domain_whois,
               ns_registrar_info, output, calls>>

(***************************************************************************)
(* Bounds of the model.                                                    *)
(***************************************************************************)
MaxLen == 2      \* longest data string given to the field normalizer
MaxList == 2     \* longest list given to the field normalizer
MaxRecords == 2  \* most resource records in one DNS answer

(***************************************************************************)
(* Python values.                                                          *)
(***************************************************************************)
None == [t |-> "none"]
Unset == [t |-> "unset"]
Str(s) == [t |-> "str", s |-> s]
List(items) == [t |-> "list", items |-> items]
Other(repr) == [t |-> "other", repr |-> repr]
Record(fields) == [t |-> "record", fields |-> fields]
Raise(exc) == [t |-> "raise", exc |-> exc]

\* bool(v): None, "" and [] and an empty mapping are falsy.
Truthy(v) ==
    CASE v.t = "none" -> FALSE
      [] v.t = "str" -> v.s # <<>>
      [] v.t = "list" -> v.items # <<>>
      [] v.t = "record" -> DOMAIN v.fields # {}
      [] OTHER -> TRUE

\* a or b
PyOr(a, b) == IF Truthy(a) THEN a ELSE b

Whitespace == {" "}

RECURSIVE lstrip(_, _)
lstrip(s, chars) ==
    IF s # <<>> /\ s[1] \in chars THEN lstrip(Tail(s), chars) ELSE s

RECURSIVE rstrip(_, _)
rstrip(s, chars) ==
    IF s # <<>> /\ s[Len(s)] \in chars
    THEN rstrip(SubSeq(s, 1, Len(s) - 1), chars)
    ELSE s

\* str.strip()
strip(s) == rstrip(lstrip(s, Whitespace), Whitespace)

\* All sequences over S of length at most n.
SeqsUpTo(S, n) == UNION {[1..k -> S] : k \in 0..n}

(***************************************************************************)
(* Field Normalizer: get_primary_whois_value.                              *)
(***************************************************************************)
NotFound == <<"Not Found">>

IsNonBlankStr(item) == item.t = "str" /\ strip(item.s) # <<>>

get_primary_whois_value(data) ==
    IF data.t = "none" THEN NotFound
    ELSE IF data.t = "list" THEN
        LET filtered_list == SelectSeq(data.items, IsNonBlankStr)
        IN  IF filtered_list # <<>> THEN filtered_list[1].s ELSE NotFound
    ELSE IF data.t = "str" THEN
        IF strip(data.s) # <<>> THEN strip(data.s) ELSE NotFound
    ELSE data.repr

\* Inputs of the normalizer: None, strings, lists of strings mixed with
\* non-string items, and a non-string non-list object.
WhoisChars == {" ", "a"}
WhoisStrings == SeqsUpTo(WhoisChars, MaxLen)
OtherObject == Other(<<"2020-01-01">>)
WhoisItems == {Str(s) : s \in WhoisStrings} \cup {OtherObject, None}
WhoisValues ==
    {None, OtherObject}
        \cup {Str(s) : s \in WhoisStrings}
        \cup {List(l) : l \in SeqsUpTo(WhoisItems, MaxList)}

NormalizerInit ==
    /\ pc = "call_get_primary_whois_value"
    /\ arg \in WhoisValues
    /\ ret = Unset
    /\ domain_to_check = Unset /\ domain_whois = Unset /\ registrant = Unset
    /\ registrar = Unset /\ nameservers = <<>> /\ ns_error_msg = Unset
    /\ first_nameserver = Unset /\ ns_owner_domain = Unset
    /\ ns_domain_whois = Unset /\ ns_registrar_info = Unset
    /\ output = <<>> /\ calls = <<>>

Call_get_primary_whois_value ==
    /\ pc = "call_get_primary_whois_value"
    /\ ret' = Str(get_primary_whois_value(arg))
    /\ pc' = "returned"
    /\ UNCHANGED <<main_vars, arg>>

NormalizerNext == Call_get_primary_whois_value

SpecNormalizer == NormalizerInit /\ [][NormalizerNext]_vars

PolicyValue(data) ==
    IF data.t = "none" THEN NotFound
    ELSE IF data.t = "list" THEN
        IF \E i \in 1..Len(data.items) : IsNonBlankStr(data.items[i])
        THEN LET i == CHOOSE i \in 1..Len(data.items) :
                         /\ IsNonBlankStr(data.items[i])
                         /\ \A j \in 1..(i - 1) : ~IsNonBlankStr(data.items[j])
             IN  strip(data.items[i].s)
        ELSE NotFound
    ELSE IF strip(data.s) # <<>> THEN strip(data.s) ELSE NotFound

(***************************************************************************)
(* C5: get_primary_whois_value agrees with the stated policy: None gives   *)
(* "Not Found"; a list gives its first entry that is a string and is       *)
(* non-empty after trimming, in whitespace-trimmed form, else "Not Found"; *)
(* a bare string gives its trimmed form, else "Not Found".                 *)
(***************************************************************************)
C5_PrimaryValueFollowsPolicy ==
    (pc = "returned" /\ arg.t \in {"none", "list", "str"})
        => ret = Str(PolicyValue(arg))

(***************************************************************************)
(* WHOIS Client: get_whois_info.                                           *)
(***************************************************************************)
Line(label, text) == [label |-> label, text |-> text]

\* A WHOIS record is a mapping from field names to values.  The library may
\* leave a field out, set it to None, to a string or to a list of strings.
FieldSamples ==
    {None, Str(<<" ", "a">>), List(<<Str(<<" ">>)>>),
     List(<<Str(<<" ", "a">>)>>)}
RecordShapes ==
    {{}, {"name", "registrant_name"}, {"org", "registrant_organization"},
     {"name", "org"}, {"registrar", "registrar_url"}, {"registrar", "org"}}
WhoisRecords ==
    {Record(f) : f \in UNION {[K -> FieldSamples] : K \in RecordShapes}}

\* What whois.whois(domain) does: it returns a record or raises.
WhoisFailures ==
    {"UnknownTld", "WhoisCommandFailed", "PywhoisError", "socket.timeout",
     "Exception"}
WhoisOutcomes == WhoisRecords \cup {Raise(e) : e \in WhoisFailures}

\* isinstance(exc, cls): every failure is an Exception.
IsInstance(exc, cls) == exc = cls \/ cls = "Exception"

\* The except clauses of get_whois_info, in order, without the last one.
WhoisExceptClausesNoCatchAll ==
    <<"UnknownTld", "WhoisCommandFailed", "PywhoisError", "socket.timeout">>

\* The except clauses of get_whois_info, in order.
WhoisExceptClauses ==
    <<"UnknownTld", "WhoisCommandFailed", "PywhoisError", "socket.timeout",
      "Exception">>

WhoisCaught(exc) ==
    \E i \in 1..Len(WhoisExceptClauses) : IsInstance(exc, WhoisExceptClauses[i])

WhoisClause(exc) ==
    CHOOSE i \in 1..Len(WhoisExceptClauses) :
        /\ IsInstance(exc, WhoisExceptClauses[i])
        /\ \A j \in 1..(i - 1) : ~IsInstance(exc, WhoisExceptClauses[j])

\* The value get_whois_info returns, or the exception it lets through.
get_whois_info(outcome) ==
    IF outcome.t # "raise" THEN outcome
    ELSE IF WhoisCaught(outcome.exc) THEN None
    ELSE outcome

\* The warning each except clause of get_whois_info prints.
WhoisWarning(clause, domain) ==
    CASE clause = "UnknownTld" ->
            <<"WHOIS lookup failed for '">> \o domain \o <<"'. Unknown TLD.">>
      [] clause = "WhoisCommandFailed" ->
            <<"WHOIS command execution failed for '">> \o domain
                \o <<"': ", "error">>
      [] clause = "PywhoisError" ->
            <<"WHOIS lookup error for '">> \o domain \o <<"': ", "error">>
      [] clause = "socket.timeout" ->
            <<"WHOIS lookup for '">> \o domain \o <<"' timed out.">>
      [] OTHER ->
            <<"An unexpected error occurred during WHOIS lookup for '">>
                \o domain \o <<"': ", "error">>

\* What get_whois_info prints.
get_whois_info_prints(domain, outcome) ==
    IF outcome.t = "raise" /\ WhoisCaught(outcome.exc)
    THEN <<Line("Warning",
                WhoisWarning(WhoisExceptClauses[WhoisClause(outcome.exc)],
                             domain))>>
    ELSE <<>>

Domains == {<<"d", ".", "c">>}

\* The query get_whois_info issues.
WhoisQuery(domain) == [lookup |-> "whois", domain |-> domain]

WhoisInit ==
    /\ pc = "call_get_whois_info"
    /\ arg \in [domain : Domains, outcome : WhoisOutcomes]
    /\ ret = Unset
    /\ domain_to_check = Unset /\ domain_whois = Unset /\ registrant = Unset
    /\ registrar = Unset /\ nameservers = <<>> /\ ns_error_msg = Unset
    /\ first_nameserver = Unset /\ ns_owner_domain = Unset
    /\ ns_domain_whois = Unset /\ ns_registrar_info = Unset
    /\ output = <<>> /\ calls = <<>>

Call_get_whois_info ==
    /\ pc = "call_get_whois_info"
    /\ calls' = Append(calls, WhoisQuery(Str(arg.domain)))
    /\ ret' = get_whois_info(arg.outcome)
    /\ output' = output \o get_whois_info_prints(arg.domain, arg.outcome)
    /\ pc' = "returned"
    /\ UNCHANGED <<domain_to_check, domain_whois, registrant, registrar,
                   nameservers, ns_error_msg, first_nameserver, ns_owner_domain,
                   ns_domain_whois, ns_registrar_info, arg>>

WhoisNext == Call_get_whois_info

SpecWhois == WhoisInit /\ [][WhoisNext]_vars

(***************************************************************************)
(* C2: get_whois_info never raises to its caller: every failure of the     *)
(* WHOIS query gives None, and a record is returned only when the query    *)
(* itself returned one.                                                    *)
(***************************************************************************)
C2_WhoisNeverRaises ==
    pc = "returned" =>
        /\ ret.t # "raise"
        /\ (arg.outcome.t = "raise" => ret = None)
        /\ (ret.t = "record" => arg.outcome = ret)

C2_Witness ==
    /\ pc = "returned"
    /\ arg.outcome = Raise("Exception")
    /\ ret = None
    /\ Len(output) = 1

(***************************************************************************)
(* DNS Client: get_dns_records.                                            *)
(***************************************************************************)
\* What resolver.resolve does: it returns an answer, whose rrset is None or
\* a set of rdata, or raises.  An rdata renders to text, or fails to.
Rdata(text) == [t |-> "rdata", text |-> text]
BadRdata == [t |-> "badrdata"]
RRset(rdatas) == [t |-> "rrset", rdatas |-> rdatas]
Answer(rrset) == [t |-> "answer", rrset |-> rrset]

RdataTexts == {<<".">>, <<"n", ".", "a", ".", "b", ".">>}
Rdatas == {Rdata(x) : x \in RdataTexts} \cup {BadRdata}
RRsets == {RRset(l) : l \in SeqsUpTo(Rdatas, MaxRecords)}
DnsFailures == {"NXDOMAIN", "NoAnswer", "NoNameservers", "Timeout", "Exception"}
ResolveOutcomes ==
    {Answer(None)} \cup {Answer(r) : r \in RRsets}
        \cup {Raise(e) : e \in DnsFailures}
RecordTypes == {"NS", "A"}

\* bool(rrset): None and an empty rrset are falsy.
RRsetTruthy(rrset) == rrset.t = "rrset" /\ rrset.rdatas # <<>>

MsgCname(record_type, cname_target) ==
    <<"No direct ", record_type, " records found, but found CNAME: ">>
        \o cname_target
MsgNoRecords(record_type) == <<"No ", record_type, " records found.">>
MsgNxdomain(domain) ==
    <<"Domain '">> \o domain \o <<"' does not exist (NXDOMAIN).">>
MsgNoAnswer(domain, record_type) ==
    <<"No ", record_type, " records found for '">> \o domain \o <<"'.">>
MsgNoNameservers(domain) ==
    <<"Could not contact nameservers for '">> \o domain \o <<"'.">>
MsgTimeout(domain, record_type) ==
    <<"DNS query for ", record_type, " records of '">> \o domain
        \o <<"' timed out.">>
MsgUnexpected(domain, record_type) ==
    <<"An unexpected DNS error occurred for '">> \o domain
        \o <<"' (", record_type, "): ", "error">>
MsgSilent(record_type) ==
    <<"No ", record_type, " records found (or query failed silently).">>

\* How the try block ends: at its return statement, or by falling out of it
\* (normally, exc = "none", or with an exception for the except clauses).
Return(records, error_msg) ==
    [t |-> "return", records |-> records, error_msg |-> error_msg]
Fall(records, exc) == [t |-> "fall", records |-> records, exc |-> exc]

\* The CNAME probe of an NS query without a result set.
CnameProbe(record_type, cname) ==
    IF cname.t = "raise" THEN
        IF cname.exc \in {"NoAnswer", "NXDOMAIN"}
        THEN Return(<<>>, Str(MsgNoRecords(record_type)))
        ELSE Fall(<<>>, cname.exc)
    ELSE IF RRsetTruthy(cname.rrset) THEN
        IF cname.rrset.rdatas[1].t = "badrdata"
        THEN Fall(<<>>, "Exception")
        ELSE Return(<<>>, Str(MsgCname(record_type,
                        rstrip(cname.rrset.rdatas[1].text, {"."}))))
    ELSE Return(<<>>, Str(MsgNoRecords(record_type)))

\* The loop over the answer: each rdata rendered, its trailing dots cut.
RECURSIVE RenderRecords(_, _)
RenderRecords(rdatas, records) ==
    IF rdatas = <<>> THEN Fall(records, "none")
    ELSE IF Head(rdatas).t = "badrdata" THEN Fall(records, "Exception")
    ELSE RenderRecords(Tail(rdatas),
                       Append(records, rstrip(Head(rdatas).text, {"."})))

DnsTry(record_type, first, cname) ==
    IF first.t = "raise" THEN Fall(<<>>, first.exc)
    ELSE IF first.rrset.t = "none" THEN
        IF record_type = "NS" THEN CnameProbe(record_type, cname)
        ELSE Return(<<>>, Str(MsgNoRecords(record_type)))
    ELSE RenderRecords(first.rrset.rdatas, <<>>)

\* The except clauses of the outer try.
DnsExcept(exc, domain, record_type) ==
    CASE exc = "none" -> None
      [] exc = "NXDOMAIN" -> Str(MsgNxdomain(domain))
      [] exc = "NoAnswer" -> Str(MsgNoAnswer(domain, record_type))
      [] exc = "NoNameservers" -> Str(MsgNoNameservers(domain))
      [] exc = "Timeout" -> Str(MsgTimeout(domain, record_type))
      [] OTHER -> Str(MsgUnexpected(domain, record_type))

\* The fallback left out.
FallbackOmitted(records, error_msg, record_type) == error_msg

\* The defensive fallback before the final return.
Fallback(records, error_msg, record_type) ==
    IF records = <<>> /\ ~Truthy(error_msg)
    THEN Str(MsgSilent(record_type))
    ELSE error_msg

get_dns_records(domain, record_type, first, cname) ==
    LET try == DnsTry(record_type, first, cname)
    IN  IF try.t = "return"
        THEN [records |-> try.records, error_msg |-> try.error_msg]
        ELSE [records |-> try.records,
              error_msg |-> Fallback(try.records,
                                     DnsExcept(try.exc, domain, record_type),
                                     record_type)]

\* The queries get_dns_records issues.
get_dns_records_queries(domain, record_type, first) ==
    <<[lookup |-> "dns", domain |-> domain, type |-> record_type]>>
        \o IF first.t = "answer" /\ first.rrset.t = "none" /\ record_type = "NS"
           THEN <<[lookup |-> "dns", domain |-> domain, type |-> "CNAME"]>>
           ELSE <<>>

DnsInit ==
    /\ pc = "call_get_dns_records"
    /\ arg \in [domain : Domains, record_type : RecordTypes,
                first : ResolveOutcomes, cname : ResolveOutcomes]
    /\ ret = Unset
    /\ domain_to_check = Unset /\ domain_whois = Unset /\ registrant = Unset
    /\ registrar = Unset /\ nameservers = <<>> /\ ns_error_msg = Unset
    /\ first_nameserver = Unset /\ ns_owner_domain = Unset
    /\ ns_domain_whois = Unset /\ ns_registrar_info = Unset
    /\ output = <<>> /\ calls = <<>>

Call_get_dns_records ==
    /\ pc = "call_get_dns_records"
    /\ calls' = calls \o get_dns_records_queries(arg.domain, arg.record_type,
                                                 arg.first)
    /\ ret' = get_dns_records(arg.domain, arg.record_type, arg.first, arg.cname)
    /\ pc' = "returned"
    /\ UNCHANGED <<domain_to_check, domain_whois, registrant, registrar,
                   nameservers, ns_error_msg, first_nameserver, ns_owner_domain,
                   ns_domain_whois, ns_registrar_info, output, arg>>

DnsNext == Call_get_dns_records

SpecDns == DnsInit /\ [][DnsNext]_vars

(***************************************************************************)
(* C3: every return of get_dns_records with an empty record list carries   *)
(* an error message: never an empty list together with no error.           *)
(***************************************************************************)
C3_EmptyListHasError ==
    (pc = "returned" /\ ret.records = <<>>)
        => (ret.error_msg.t = "str" /\ ret.error_msg.s # <<>>)

C3_Witness ==
    /\ pc = "returned"
    /\ arg.first = Answer(RRset(<<>>))
    /\ ret.records = <<>>
    /\ ret.error_msg = Str(MsgSilent(arg.record_type))

C3_WitnessProbeFailure ==
    /\ pc = "returned"
    /\ arg.record_type = "NS"
    /\ arg.first = Answer(None)
    /\ arg.cname = Raise("Timeout")
    /\ ret.records = <<>>
    /\ ret.error_msg # None

CnameQuery(domain) == [lookup |-> "dns", domain |-> domain, type |-> "CNAME"]

Probed == \E i \in 1..Len(calls) : calls[i] = CnameQuery(arg.domain)

CnameExists(cname) ==
    /\ cname.t = "answer"
    /\ RRsetTruthy(cname.rrset)
    /\ cname.rrset.rdatas[1].t = "rdata"

(***************************************************************************)
(* C4: an NS query without a result set attempts a CNAME resolution and    *)
(* returns the message naming the CNAME target (trailing dot stripped) if  *)
(* a CNAME exists, and the plain "No NS records found." otherwise,         *)
(* whatever the outcome of the probe; another type makes no probe and      *)
(* returns the plain message.                                              *)
(***************************************************************************)
C4_NoResultSetMessage ==
    (pc = "returned" /\ arg.first = Answer(None)) =>
        IF arg.record_type = "NS"
        THEN /\ Probed
             /\ ret.records = <<>>
             /\ ret.error_msg =
                    IF CnameExists(arg.cname)
                    THEN Str(MsgCname("NS",
                             rstrip(arg.cname.rrset.rdatas[1].text, {"."})))
                    ELSE Str(MsgNoRecords("NS"))
        ELSE /\ ~Probed
             /\ ret.records = <<>>
             /\ ret.error_msg = Str(MsgNoRecords(arg.record_type))

(***************************************************************************)
(* C10: every return of get_dns_records carries one outcome, never both:   *)
(* if the error message is set the record list is empty, also when         *)
(* rendering fails after some records were collected.                      *)
(***************************************************************************)
C10_ErrorMeansNoRecords ==
    (pc = "returned" /\ ret.error_msg # None) => ret.records = <<>>

(***************************************************************************)
(* Domain Extractor: get_registrable_domain.                               *)
(***************************************************************************)
\* What tldextract.extract does: it returns a result whose registered_domain
\* is empty or a suffix of the host name of two labels or more, or raises.
Extracted(registered_domain) ==
    [t |-> "extracted", registered_domain |-> registered_domain]

LabelSuffixes(fqdn) ==
    {SubSeq(fqdn, i, Len(fqdn)) :
        i \in {j \in 1..Len(fqdn) : j = 1 \/ fqdn[j - 1] = "."}}

ExtractOutcomes(fqdn) ==
    {Extracted(<<>>), Raise("Exception")}
        \cup {Extracted(d) : d \in {x \in LabelSuffixes(fqdn) :
                                       \E i \in 1..Len(x) : x[i] = "."}}

get_registrable_domain(fqdn, ext) ==
    IF ~Truthy(fqdn) THEN None
    ELSE IF ext.t = "raise" THEN None
    ELSE IF ext.registered_domain # <<>> THEN Str(ext.registered_domain)
    ELSE None

\* The warning get_registrable_domain prints.
get_registrable_domain_prints(fqdn, ext) ==
    IF ~Truthy(fqdn) THEN <<>>
    ELSE IF ext.t = "raise"
    THEN <<Line("Error using tldextract on", fqdn.s \o <<": ", "error">>)>>
    ELSE IF ext.registered_domain # <<>> THEN <<>>
    ELSE <<Line("Warning", <<"Could not extract registrable domain from '">>
                               \o fqdn.s \o <<"'">>)>>

(***************************************************************************)
(* Orchestrator: main.                                                     *)
(***************************************************************************)
\* mapping.get(key)
Get(mapping, key) ==
    IF key \in DOMAIN mapping.fields THEN mapping.fields[key] ELSE None

\* str(v) inside an f-string
PyStr(v) == IF v.t = "str" THEN v.s ELSE <<"None">>

\* ', '.join(records)
RECURSIVE Join(_)
Join(records) ==
    IF records = <<>> THEN <<>>
    ELSE IF Len(records) = 1 THEN records[1]
    ELSE records[1] \o <<", ">> \o Join(Tail(records))

LookupFailed == <<"WHOIS Lookup Failed">>

DeriveRegistrant(whois) ==
    IF Truthy(whois) THEN
        LET registrant_name ==
                get_primary_whois_value(
                    PyOr(Get(whois, "name"), Get(whois, "registrant_name")))
            registrant_org ==
                get_primary_whois_value(
                    PyOr(Get(whois, "org"),
                         Get(whois, "registrant_organization")))
        IN  IF registrant_name # NotFound THEN registrant_name
            ELSE IF registrant_org # NotFound THEN registrant_org
            ELSE NotFound
    ELSE LookupFailed

DeriveRegistrar(whois) ==
    IF Truthy(whois) THEN
        LET reg == get_primary_whois_value(Get(whois, "registrar"))
            url == get_primary_whois_value(Get(whois, "registrar_url"))
        IN  IF reg # NotFound THEN reg
            ELSE IF url # NotFound THEN <<"URL: ">> \o url
            ELSE NotFound
    ELSE LookupFailed

\* The anchor nameserver chosen although the lookup reported an error.
FirstNameserverIgnoringError(records, error_msg) ==
    IF records # <<>> THEN Str(records[1]) ELSE None

\* The anchor nameserver chosen after the NS lookup.
FirstNameserver(records, error_msg) ==
    IF Truthy(error_msg) THEN None
    ELSE IF records # <<>> THEN Str(records[1])
    ELSE None

\* The line printed after the NS lookup, with the lookup's error dropped.
NameserverLineWithoutError(records, error_msg) ==
    IF records # <<>> /\ ~Truthy(error_msg)
    THEN Line("Nameservers", Join(records))
    ELSE Line("No nameservers identified.", <<>>)

\* The line printed after the NS lookup.
NameserverLine(records, error_msg) ==
    IF Truthy(error_msg) THEN Line("Error", error_msg.s)
    ELSE IF records # <<>> THEN Line("Nameservers", Join(records))
    ELSE Line("No nameservers identified.", <<>>)

MsgSkipped == <<"Skipped (No nameserver found).">>
MsgNoOwner(nameserver) ==
    <<"Could not determine owner domain from '">> \o nameserver \o <<"'.">>
MsgOwnerLookupFailed(owner) == <<"WHOIS Lookup Failed for ">> \o owner
MsgOwnerOrg(org) == <<"Owner Org: ">> \o org \o <<" (Registrar Not Found)">>

\* The provider inferred from the owner domain's WHOIS lookup.
InferProvider(whois, owner) ==
    IF Truthy(whois) THEN
        LET reg == get_primary_whois_value(Get(whois, "registrar"))
            org == get_primary_whois_value(Get(whois, "org"))
        IN  IF reg # NotFound THEN reg
            ELSE IF org # NotFound THEN MsgOwnerOrg(org)
            ELSE NotFound
    ELSE MsgOwnerLookupFailed(PyStr(owner))

Init ==
    /\ pc = "whois_primary"
    /\ domain_to_check \in Domains
    /\ output = <<Line("--- Checking Domain", domain_to_check)>>
    /\ domain_whois = Unset /\ registrant = Unset /\ registrar = Unset
    /\ nameservers = <<>> /\ ns_error_msg = Unset
    /\ first_nameserver = Unset /\ ns_owner_domain = Unset
    /\ ns_domain_whois = Unset /\ ns_registrar_info = Unset
    /\ calls = <<>> /\ arg = Unset /\ ret = Unset

\* The WHOIS lookup of the domain, and the Registrant and Registrar lines.
WhoisPrimary ==
    /\ pc = "whois_primary"
    /\ \E outcome \in WhoisOutcomes :
        LET whois == get_whois_info(outcome)
            printed == get_whois_info_prints(domain_to_check, outcome)
        IN  /\ calls' = Append(calls, WhoisQuery(Str(domain_to_check)))
            /\ IF whois.t = "raise"
               THEN /\ pc' = "aborted"
                    /\ output' = output \o printed
                    /\ UNCHANGED <<domain_whois, registrant, registrar>>
               ELSE /\ pc' = "dns"
                    /\ domain_whois' = whois
                    /\ registrant' = Str(DeriveRegistrant(whois))
                    /\ registrar' = Str(DeriveRegistrar(whois))
                    /\ output' = output \o printed \o
                         <<Line("Domain Registrant", DeriveRegistrant(whois)),
                           Line("Domain Registrar", DeriveRegistrar(whois))>>
    /\ UNCHANGED <<domain_to_check, nameservers, ns_error_msg, first_nameserver,
                   ns_owner_domain, ns_domain_whois, ns_registrar_info, arg, ret>>

\* The NS lookup and the line it prints.
DnsLookup ==
    /\ pc = "dns"
    /\ \E first \in ResolveOutcomes, cname \in ResolveOutcomes :
        LET r == get_dns_records(domain_to_check, "NS", first, cname)
        IN  /\ calls' = calls \o get_dns_records_queries(domain_to_check, "NS",
                                                         first)
            /\ nameservers' = r.records
            /\ ns_error_msg' = r.error_msg
            /\ first_nameserver' = FirstNameserver(r.records, r.error_msg)
            /\ output' = Append(output, NameserverLine(r.records, r.error_msg))
    /\ pc' = "infer"
    /\ UNCHANGED <<domain_to_check, domain_whois, registrant, registrar,
                   ns_owner_domain, ns_domain_whois, ns_registrar_info, arg, ret>>

\* The owner domain of the anchor nameserver, if there is an anchor.
ExtractOwner ==
    /\ pc = "infer"
    /\ IF Truthy(first_nameserver)
       THEN \E ext \in ExtractOutcomes(first_nameserver.s) :
              LET owner == get_registrable_domain(first_nameserver, ext)
              IN  /\ ns_owner_domain' = owner
                  /\ output' = output \o
                        get_registrable_domain_prints(first_nameserver, ext)
                  /\ IF Truthy(owner)
                     THEN /\ pc' = "whois_owner"
                          /\ ns_registrar_info' = Str(NotFound)
                     ELSE /\ pc' = "report"
                          /\ ns_registrar_info' =
                                Str(MsgNoOwner(first_nameserver.s))
       ELSE /\ pc' = "report"
            /\ ns_registrar_info' = Str(MsgSkipped)
            /\ UNCHANGED <<ns_owner_domain, output>>
    /\ UNCHANGED <<domain_to_check, domain_whois, registrant, registrar,
                   nameservers, ns_error_msg, first_nameserver, ns_domain_whois,
                   calls, arg, ret>>

\* The WHOIS lookup of the owner domain.
WhoisOwner ==
    /\ pc = "whois_owner"
    /\ \E outcome \in WhoisOutcomes :
        LET whois == get_whois_info(outcome)
            printed == get_whois_info_prints(PyStr(ns_owner_domain), outcome)
        IN  /\ calls' = Append(calls, WhoisQuery(ns_owner_domain))
            /\ output' = output \o printed
            /\ IF whois.t = "raise"
               THEN /\ pc' = "aborted"
                    /\ UNCHANGED <<ns_domain_whois, ns_registrar_info>>
               ELSE /\ pc' = "report"
                    /\ ns_domain_whois' = whois
                    /\ ns_registrar_info' =
                          Str(InferProvider(whois, ns_owner_domain))
    /\ UNCHANGED <<domain_to_check, domain_whois, registrant, registrar,
                   nameservers, ns_error_msg, first_nameserver, ns_owner_domain,
                   arg, ret>>

\* The last field and the footer.
Report ==
    /\ pc = "report"
    /\ output' = output \o
          <<Line("Inferred DNS Hosting Provider", ns_registrar_info.s),
            Line("--- Check Complete for", domain_to_check)>>
    /\ pc' = "done"
    /\ UNCHANGED <<domain_to_check, domain_whois, registrant, registrar,
                   nameservers, ns_error_msg, first_nameserver, ns_owner_domain,
                   ns_domain_whois, ns_registrar_info, calls, arg, ret>>

Next == WhoisPrimary \/ DnsLookup \/ ExtractOwner \/ WhoisOwner \/ Report

Spec == Init /\ [][Next]_vars

\* The program is one thread: a step that can run does run.
FairSpec == Spec /\ WF_vars(Next)

(***************************************************************************)
(* Properties of main.                                                     *)
(***************************************************************************)
AfterPrimary == pc \in {"dns", "infer", "whois_owner", "report", "done"}

Labels == {output[i].label : i \in 1..Len(output)}
LinesLabelled(label) == {i \in 1..Len(output) : output[i].label = label}
NameserverStepLabels == {"Nameservers", "Error", "No nameservers identified."}
NameserverStepLines ==
    {i \in 1..Len(output) : output[i].label \in NameserverStepLabels}

WhoisCalls == {i \in 1..Len(calls) : calls[i].lookup = "whois"}
NsCalls ==
    {i \in 1..Len(calls) : calls[i].lookup = "dns" /\ calls[i].type = "NS"}
OwnerWhoisCalls == {i \in WhoisCalls : i > 1}

(***************************************************************************)
(* C1 as stated: every run of main reaches its end, never aborts, and has  *)
(* by then printed one labelled line for each of Registrant, Registrar,    *)
(* Nameservers and Inferred DNS Hosting Provider.                          *)
(***************************************************************************)
C1_AllFourFieldsPrinted ==
    /\ pc # "aborted"
    /\ pc = "done" =>
          /\ Cardinality(LinesLabelled("Domain Registrant")) = 1
          /\ Cardinality(LinesLabelled("Domain Registrar")) = 1
          /\ Cardinality(LinesLabelled("Nameservers")) = 1
          /\ Cardinality(LinesLabelled("Inferred DNS Hosting Provider")) = 1

\* What main has printed and holds when it ends.
FieldsPrintedAtEnd ==
    pc = "done" =>
        /\ Cardinality(LinesLabelled("Domain Registrant")) = 1
        /\ Cardinality(LinesLabelled("Domain Registrar")) = 1
        /\ Cardinality(NameserverStepLines) = 1
        /\ Cardinality(LinesLabelled("Inferred DNS Hosting Provider")) = 1
        /\ \A i \in LinesLabelled("Domain Registrant"),
              j \in LinesLabelled("Domain Registrar"),
              k \in NameserverStepLines,
              l \in LinesLabelled("Inferred DNS Hosting Provider") :
                /\ i < j /\ j < k /\ k < l
                /\ output[i].text = registrant.s
                /\ output[j].text = registrar.s
                /\ output[l].text = ns_registrar_info.s
                /\ output[k] =
                      IF ns_error_msg = None /\ nameservers # <<>>
                      THEN Line("Nameservers", Join(nameservers))
                      ELSE Line("Error", ns_error_msg.s)

(***************************************************************************)
(* C1 as amended: every run of main reaches its end, never aborts, and has *)
(* by then printed, in this order, one Registrant line, one Registrar      *)
(* line, one line for the nameserver step and one Inferred DNS Hosting     *)
(* Provider line; the nameserver step's line is the Nameservers line when  *)
(* the NS lookup returned records and no error, and an "Error:" line       *)
(* carrying the lookup's message otherwise.                                *)
(***************************************************************************)
C1_RunCompletes ==
    /\ <>(pc = "done")
    /\ [](pc # "aborted")
    /\ []FieldsPrintedAtEnd

C1_Witness ==
    /\ pc = "done"
    /\ domain_whois = None
    /\ ns_error_msg = Str(MsgNxdomain(domain_to_check))
    /\ "Nameservers" \notin Labels
    /\ "Error" \in Labels

FirstFound(whois, keys) ==
    IF \E i \in 1..Len(keys) :
            get_primary_whois_value(Get(whois, keys[i])) # NotFound
    THEN LET i == CHOOSE i \in 1..Len(keys) :
                    /\ get_primary_whois_value(Get(whois, keys[i])) # NotFound
                    /\ \A j \in 1..(i - 1) :
                          get_primary_whois_value(Get(whois, keys[j])) = NotFound
         IN  get_primary_whois_value(Get(whois, keys[i]))
    ELSE NotFound

(***************************************************************************)
(* C6: with a primary WHOIS record present (here: one that has at least    *)
(* one key, so that main derives the fields from it), Registrant is the    *)
(* non-empty primary value of the name field, or else of the               *)
(* registrant_name field,                                                  *)
(* or else of the org field, or else of the registrant_organization field, *)
(* and "Not Found" only when none of the four yields a non-empty value.    *)
(***************************************************************************)
C6_RegistrantFallsThroughFields ==
    (AfterPrimary /\ domain_whois.t = "record" /\ Truthy(domain_whois)) =>
        registrant =
            Str(FirstFound(domain_whois,
                           <<"name", "registrant_name", "org",
                             "registrant_organization">>))

(***************************************************************************)
(* C7: Registrant and Registrar are both "WHOIS Lookup Failed" exactly     *)
(* when the primary WHOIS lookup returned None; from a record, even one    *)
(* with no populated field, they are derived and never "WHOIS Lookup       *)
(* Failed".                                                                *)
(***************************************************************************)
C7_LookupFailedIffAbsent ==
    AfterPrimary =>
        /\ (registrant = Str(LookupFailed) /\ registrar = Str(LookupFailed))
              <=> domain_whois = None
        /\ domain_whois.t = "record" =>
              /\ registrant # Str(LookupFailed)
              /\ registrar # Str(LookupFailed)

ProviderDecision ==
    IF ns_error_msg # None \/ nameservers = <<>> THEN MsgSkipped
    ELSE IF ns_owner_domain.t # "str" THEN MsgNoOwner(nameservers[1])
    ELSE IF ~Truthy(ns_domain_whois) THEN MsgOwnerLookupFailed(ns_owner_domain.s)
    ELSE LET reg == get_primary_whois_value(Get(ns_domain_whois, "registrar"))
             org == get_primary_whois_value(Get(ns_domain_whois, "org"))
         IN  IF reg # NotFound THEN reg
             ELSE IF org # NotFound THEN MsgOwnerOrg(org)
             ELSE NotFound

(***************************************************************************)
(* C8: the Inferred DNS Hosting Provider is "Skipped (No nameserver        *)
(* found)." if the NS lookup reported an error or returned no records;     *)
(* otherwise, with the first nameserver as anchor, "Could not determine    *)
(* owner domain from '<nameserver>'." if extraction yields nothing;        *)
(* otherwise "WHOIS Lookup Failed for <owner>" if the owner lookup yields  *)
(* nothing (here: None or a record without keys); otherwise the            *)
(* registrar's primary value, or the owner-org form, or "Not Found".       *)
(***************************************************************************)
C8_ProviderDecision ==
    pc = "done" =>
        /\ ns_registrar_info = Str(ProviderDecision)
        /\ output[Len(output) - 1] =
              Line("Inferred DNS Hosting Provider", ProviderDecision)

(***************************************************************************)
(* C9: the lookups happen in a fixed order: the WHOIS lookup of the input  *)
(* domain, then the NS lookup, then any WHOIS lookup of the owner domain.  *)
(* The NS lookup is issued whatever the first WHOIS lookup gave; the owner *)
(* lookup is issued if and only if the NS lookup returned no error and at  *)
(* least one record and the extraction from the first record succeeded; a  *)
(* run makes at most two WHOIS lookups.                                    *)
(***************************************************************************)
C9_LookupOrder ==
    /\ Cardinality(WhoisCalls) <= 2
    /\ Cardinality(NsCalls) <= 1
    /\ AfterPrimary => calls[1] = WhoisQuery(Str(domain_to_check))
    /\ pc \in {"infer", "whois_owner", "report", "done"} =>
          /\ NsCalls = {2}
          /\ calls[2].domain = domain_to_check
    /\ \A i \in 1..Len(calls) :
          /\ calls[i].lookup = "dns" => i > 1
          /\ i \in OwnerWhoisCalls =>
                /\ i = Len(calls)
                /\ NsCalls = {2}
                /\ calls[i] = WhoisQuery(ns_owner_domain)
    /\ pc \in {"report", "done"} =>
          (OwnerWhoisCalls # {}
              <=> /\ ns_error_msg = None
                  /\ nameservers # <<>>
                  /\ ns_owner_domain.t = "str")

C9_Witness ==
    /\ pc = "done"
    /\ domain_whois = None
    /\ Len(calls) = 3
    /\ calls[1].lookup = "whois"
    /\ calls[2].lookup = "dns"
    /\ calls[3] = WhoisQuery(Str(<<"a", ".", "b">>))

C9_WitnessNoOwnerLookup ==
    /\ pc = "done"
    /\ ns_error_msg = None
    /\ nameservers # <<>>
    /\ ns_owner_domain = None
    /\ Cardinality(WhoisCalls) = 1

====
